---- MODULE Spec2Model ----
(***************************************************************************)
(* Model of src/app/main.py: the Streamlit script that loads a ledger of   *)
(* stock transactions (portfolio.yaml), turns it into a table of running   *)
(* totals (format_transactions) and joins it with daily close prices       *)
(* (fetch_hist_data).                                                      *)
(*                                                                         *)
(* Dates are day numbers: StartDate stands for 2020-01-01, Today for       *)
(* datetime.today(), and day 0 for a day before the start date.            *)
(* A float is <<v>> (the number v) or <<>> (NaN); a ratio is <<n, d>>,     *)
(* with d = 0 for an infinity of the sign of n.                            *)
(*                                                                         *)
(* Input domain: ledgers in which at least one entry carries a QTE item    *)
(* and at least one carries a PRICE item (so that pandas gives both        *)
(* columns a numeric dtype), and the empty ledger.                         *)
(***************************************************************************)
EXTENDS Integers, Sequences, FiniteSets, TLC

VARIABLES file, closed, unlisted, pc, portfolio, df, hist_data,
          load_cache, format_cache, fetch_cache

vars == <<file, closed, unlisted, pc, portfolio, df, hist_data,
          load_cache, format_cache, fetch_cache>>

\* datetime.datetime.today(), as a day number
Today == 2

\* pd.Timestamp("2020-01-01"), as a day number
StartDate == 1

Tickers == {"A", "B"}

Days == 0..Today

\* ------------------------------------------------------------------ floats

NaN == <<>>

F(v) == <<v>>

IsNaN(x) == x = NaN

Val(x) == x[1]

Mul(x, y) == IF IsNaN(x) \/ IsNaN(y) THEN NaN ELSE F(Val(x) * Val(y))

Sub(x, y) == IF IsNaN(x) \/ IsNaN(y) THEN NaN ELSE F(Val(x) - Val(y))

Sign(n) == IF n > 0 THEN 1 ELSE -1

\* float division: x/0 is an infinity, 0/0 and anything with NaN is NaN
Div(x, y) ==
    IF IsNaN(x) \/ IsNaN(y) THEN NaN
    ELSE IF Val(y) = 0
         THEN (IF Val(x) = 0 THEN NaN ELSE <<Sign(Val(x)), 0>>)
         ELSE <<Val(x), Val(y)>>

\* ------------------------------------------------------------------ ledger

Qte(q) == [key |-> "QTE", val |-> <<"num", q>>]

Price(p) == [key |-> "PRICE", val |-> <<"num", p>>]

PriceStr(s) == [key |-> "PRICE", val |-> <<"str", s>>]

\* the details lists a ledger entry of ticker A may hold
DetailsA ==
    { <<Qte(2), Price(1)>>,
      <<Qte(1)>>,
      <<Qte(-1), PriceStr(<<"2">>)>>,
      <<Price(1)>>,
      <<Qte(1), Qte(2), PriceStr(<<"a", "b", "c">>)>> }

\* the details list a ledger entry of ticker B may hold
DetailsB == { <<Qte(2), Price(1)>> }

HasKey(details, key) == \E i \in DOMAIN details : details[i].key = key

NumericColumns(l) ==
    /\ \E k \in DOMAIN l : HasKey(l[k], "QTE")
    /\ \E k \in DOMAIN l : HasKey(l[k], "PRICE")

EntryKeys == (({"A"} \X Days) \cup {<<"B", StartDate>>})

Ledgers ==
    { l \in UNION { [K -> DetailsA \cup DetailsB] : K \in SUBSET EntryKeys } :
        /\ \A k \in DOMAIN l : l[k] \in (IF k[1] = "A" THEN DetailsA ELSE DetailsB)
        /\ (DOMAIN l = {} \/ NumericColumns(l)) }

\* ------------------------------------------------------------------ market

\* the close price the provider quotes for a ticker on a day it trades
Quote(t, d) == IF t = "A" THEN 1 + d ELSE 2

Trades(t, d) == t \notin unlisted /\ d \notin closed

\* yf.download(ticker, start=date, end=date + 1 day)[ticker]["Close"]:
\* values[0], or NaN when the frame is empty
buy_price_yahoo(t, d) == IF Trades(t, d) THEN F(Quote(t, d)) ELSE NaN

\* ------------------------------------------------------ format_transactions

Digit ==
    "0" :> 0 @@ "1" :> 1 @@ "2" :> 2 @@ "3" :> 3 @@ "4" :> 4 @@
    "5" :> 5 @@ "6" :> 6 @@ "7" :> 7 @@ "8" :> 8 @@ "9" :> 9

RECURSIVE ParseDigits(_)
ParseDigits(s) ==
    IF s = <<>> THEN 0
    ELSE 10 * ParseDigits(SubSeq(s, 1, Len(s) - 1)) + Digit[s[Len(s)]]

\* pd.to_numeric(value, errors="coerce"): a number is kept, a string of digits
\* is parsed, any other string becomes NaN
to_numeric(raw) ==
    IF raw[1] = "num" THEN F(raw[2])
    ELSE IF raw[2] # <<>> /\ \A i \in DOMAIN raw[2] : raw[2][i] \in DOMAIN Digit
         THEN F(ParseDigits(raw[2]))
         ELSE NaN

\* FirstItem with a fault: the last item holding the key is taken
LastItem(details, key) ==
    details[CHOOSE i \in DOMAIN details :
                /\ details[i].key = key
                /\ \A j \in DOMAIN details : details[j].key = key => j <= i]

\* next((item[key] for item in details if key in item), ...): the first item
\* holding the key (used only where one exists)
FirstItem(details, key) ==
    details[CHOOSE i \in DOMAIN details :
                /\ details[i].key = key
                /\ \A j \in DOMAIN details : details[j].key = key => i <= j]

\* qte of line 28; the default None is stored as NaN in the numeric column
ExtractQte(details) ==
    IF HasKey(details, "QTE") THEN F(FirstItem(details, "QTE").val[2]) ELSE NaN

\* price of line 29; the default None is stored as NaN in the numeric column
ExtractPrice(details) ==
    IF HasKey(details, "PRICE") THEN to_numeric(FirstItem(details, "PRICE").val) ELSE NaN

TickerRank(t) == IF t = "A" THEN 1 ELSE 2

\* the order of df.sort_values(by=["ticker", "date"]) on (ticker, date) keys
KeyLeq(j, k) ==
    TickerRank(j[1]) < TickerRank(k[1]) \/ (j[1] = k[1] /\ j[2] <= k[2])

RECURSIVE SortKeys(_)
SortKeys(S) ==
    IF S = {} THEN <<>>
    ELSE LET m == CHOOSE k \in S : \A j \in S : KeyLeq(k, j)
         IN  <<m>> \o SortKeys(S \ {m})

\* line 49: a missing price is replaced by the single-day market price
FillPrice(price, yahoo) == IF IsNaN(price) THEN yahoo ELSE price

\* the records of lines 26-39, sorted (lines 45-48), with the price filled
Records(p) ==
    LET keys == SortKeys(DOMAIN p)
    IN  [i \in DOMAIN keys |->
            [ticker |-> keys[i][1],
             date |-> keys[i][2],
             quantity_flow |-> ExtractQte(p[keys[i]]),
             price |-> FillPrice(ExtractPrice(p[keys[i]]),
                                 buy_price_yahoo(keys[i][1], keys[i][2]))]]

\* sum of the known values of flow over rows 1..i of ticker t
RECURSIVE Accum(_, _, _, _)
Accum(ticker, flow, t, i) ==
    IF i = 0 THEN 0
    ELSE Accum(ticker, flow, t, i - 1)
         + (IF ticker[i] = t /\ ~IsNaN(flow[i]) THEN Val(flow[i]) ELSE 0)

\* df.groupby("ticker").<flow>.cumsum(): skipna, so a NaN flow gives NaN in
\* its own row and is left out of the running total
GroupCumsum(ticker, flow) ==
    [i \in DOMAIN flow |->
        IF IsNaN(flow[i]) THEN NaN ELSE F(Accum(ticker, flow, ticker[i], i))]

\* InvestedCashFlow with a fault: the quantities of sells are not zeroed
InvestedCashFlowSigned(quantity_flow, price) == Mul(quantity_flow, price)

\* line 54: quantity_flow.where(quantity_flow > 0, 0) * price
InvestedCashFlow(quantity_flow, price) ==
    Mul(IF ~IsNaN(quantity_flow) /\ Val(quantity_flow) > 0 THEN quantity_flow ELSE F(0),
        price)

\* FormatRaises with a fault: an entry without a QTE item raises too
FormatRaisesOnMissingQte(p) ==
    DOMAIN p = {} \/ \E k \in DOMAIN p : ~HasKey(p[k], "QTE")

\* format_transactions raises: with no records the frame has no columns and
\* sort_values(by=["ticker", "date"]) raises KeyError
FormatRaises(p) == DOMAIN p = {}

format_transactions(p) ==
    LET r == Records(p)
        ticker == [i \in DOMAIN r |-> r[i].ticker]
        qflow == [i \in DOMAIN r |-> r[i].quantity_flow]
        sflow == [i \in DOMAIN r |-> Mul(r[i].quantity_flow, r[i].price)]
        iflow == [i \in DOMAIN r |-> InvestedCashFlow(r[i].quantity_flow, r[i].price)]
        qstock == GroupCumsum(ticker, qflow)
        sstock == GroupCumsum(ticker, sflow)
        istock == GroupCumsum(ticker, iflow)
    IN  [i \in DOMAIN r |->
            [ticker |-> r[i].ticker,
             date |-> r[i].date,
             quantity_flow |-> r[i].quantity_flow,
             price |-> r[i].price,
             quantity_stock |-> qstock[i],
             spending_flow |-> sflow[i],
             spending_stock |-> sstock[i],
             invested_cash_flow |-> iflow[i],
             invested_cash_stock |-> istock[i]]]

\* --------------------------------------------------------- fetch_hist_data

\* pd.date_range(start=start_date, end=end_date, freq="D")
all_dates == StartDate..Today

\* list(portfolio.keys())
TrackedTickers(p) == { k[1] : k \in DOMAIN p }

\* the index of the frame yf.download(tickers, start=start_date) returns: the
\* days from the start date on which some requested ticker has a quote
QuotedDays(p) ==
    { d \in all_dates : \E t \in TrackedTickers(p) : Trades(t, d) }

\* StackedKeys with a fault: stack() without future_stack drops the rows
\* that hold no value
StackedKeysDropNa(p) ==
    { k \in QuotedDays(p) \X TrackedTickers(p) : Trades(k[2], k[1]) }

\* hist_data.stack(level=0, future_stack=True): one (date, ticker) row for
\* every day of the index and every requested ticker, NaN rows kept
StackedKeys(p) == QuotedDays(p) \X TrackedTickers(p)

\* the row order of the stacked frame: by date, then by ticker
RowLeq(j, k) ==
    j[1] < k[1] \/ (j[1] = k[1] /\ TickerRank(j[2]) <= TickerRank(k[2]))

RECURSIVE SortRows(_)
SortRows(S) ==
    IF S = {} THEN <<>>
    ELSE LET m == CHOOSE k \in S : \A j \in S : RowLeq(k, j)
         IN  <<m>> \o SortRows(S \ {m})

\* the ["Date", "Ticker", "Close"] frame of lines 66-74
Closes(p) ==
    LET rows == SortRows(StackedKeys(p))
    IN  [i \in DOMAIN rows |->
            [date |-> rows[i][1],
             ticker |-> rows[i][2],
             close |-> IF Trades(rows[i][2], rows[i][1])
                       THEN F(Quote(rows[i][2], rows[i][1])) ELSE NaN]]

\* pd.MultiIndex.from_product([df["ticker"].unique(), all_dates])
multi_index(d) == { d[i].ticker : i \in DOMAIN d } \X all_dates

\* set_index(["ticker", "date"]).reindex(multi_index): the value of column
\* col at a grid key, NaN where df has no row for the key; rows of df whose
\* key is not in the grid are dropped
Reindex(d, t, day, col) ==
    IF \E i \in DOMAIN d : d[i].ticker = t /\ d[i].date = day
    THEN d[CHOOSE i \in DOMAIN d : d[i].ticker = t /\ d[i].date = day][col]
    ELSE NaN

\* groupby("ticker")[col].ffill() over the grid: the last value that is not
\* NaN on or before the day, from the start date on
RECURSIVE Ffill(_, _, _, _)
Ffill(d, t, day, col) ==
    IF day < StartDate THEN NaN
    ELSE IF ~IsNaN(Reindex(d, t, day, col)) THEN Reindex(d, t, day, col)
         ELSE Ffill(d, t, day - 1, col)

\* fillna(0)
Fillna0(x) == IF IsNaN(x) THEN F(0) ELSE x

\* Mask with a fault: the column is left as it is
MaskKeep(x, close) == x

\* x.where(~close.isna(), np.nan)
Mask(x, close) == IF IsNaN(close) THEN NaN ELSE x

\* the left merge of lines 100-103 for one row of the close frame: the
\* columns of full_df at the row's key, NaN when the key is not in the grid
Merged(d, t, day, col) ==
    IF <<t, day>> \in multi_index(d)
    THEN (IF col = "quantity_stock"
          THEN Fillna0(Ffill(d, t, day, col)) ELSE Ffill(d, t, day, col))
    ELSE NaN

fetch_hist_data(d, p) ==
    LET c == Closes(p)
        q(i) == Merged(d, c[i].ticker, c[i].date, "quantity_stock")
        s(i) == Merged(d, c[i].ticker, c[i].date, "spending_stock")
        v(i) == Merged(d, c[i].ticker, c[i].date, "invested_cash_stock")
        valuation(i) == Mul(q(i), c[i].close)
        balance(i) == Sub(valuation(i), s(i))
    IN  [i \in DOMAIN c |->
            [ticker |-> c[i].ticker,
             date |-> c[i].date,
             close |-> c[i].close,
             quantity_stock |-> q(i),
             spending_stock |-> Mask(s(i), c[i].close),
             invested_cash_stock |-> Mask(v(i), c[i].close),
             valuation |-> valuation(i),
             balance |-> balance(i),
             profit_rate |-> Div(balance(i), v(i))]]

\* ------------------------------------------------------------------ script

\* a value memoized by st.cache_data under the given arguments
Cached(cache, key) == (CHOOSE e \in cache : e[1] = key)[2]

IsCached(cache, key) == \E e \in cache : e[1] = key

Init ==
    /\ file \in Ledgers
    /\ closed \in { S \in SUBSET Days : Cardinality(S) <= 1 }
    /\ unlisted \in SUBSET {"B"}
    /\ pc = "load"
    /\ portfolio = <<>>
    /\ df = <<>>
    /\ hist_data = <<>>
    /\ load_cache = {}
    /\ format_cache = {}
    /\ fetch_cache = {}

\* portfolio = load_transactions(), memoized on its (empty) argument list
LoadTransactions ==
    /\ pc = "load"
    /\ portfolio' = IF IsCached(load_cache, <<>>) THEN Cached(load_cache, <<>>) ELSE file
    /\ load_cache' = IF IsCached(load_cache, <<>>) THEN load_cache
                     ELSE load_cache \cup {<<<<>>, file>>}
    /\ pc' = "format"
    /\ UNCHANGED <<file, closed, unlisted, df, hist_data, format_cache, fetch_cache>>

\* df = format_transactions(portfolio), memoized on portfolio; an exception
\* ends the script run and nothing is memoized
FormatTransactions ==
    /\ pc = "format"
    /\ IF IsCached(format_cache, portfolio)
       THEN /\ df' = Cached(format_cache, portfolio)
            /\ pc' = "fetch"
            /\ UNCHANGED format_cache
       ELSE IF FormatRaises(portfolio)
            THEN /\ pc' = "failed"
                 /\ UNCHANGED <<df, format_cache>>
            ELSE /\ df' = format_transactions(portfolio)
                 /\ format_cache' = format_cache \cup {<<portfolio, df'>>}
                 /\ pc' = "fetch"
    /\ UNCHANGED <<file, closed, unlisted, portfolio, hist_data, load_cache, fetch_cache>>

\* hist_data = fetch_hist_data(df, portfolio), memoized on (df, portfolio)
FetchHistData ==
    /\ pc = "fetch"
    /\ hist_data' = IF IsCached(fetch_cache, <<df, portfolio>>)
                    THEN Cached(fetch_cache, <<df, portfolio>>)
                    ELSE fetch_hist_data(df, portfolio)
    /\ fetch_cache' = IF IsCached(fetch_cache, <<df, portfolio>>) THEN fetch_cache
                      ELSE fetch_cache \cup {<<<<df, portfolio>>, hist_data'>>}
    /\ pc' = "done"
    /\ UNCHANGED <<file, closed, unlisted, portfolio, df, load_cache, format_cache>>

Next == LoadTransactions \/ FormatTransactions \/ FetchHistData

Spec == Init /\ [][Next]_vars

\* ----------------------------------------------------------------- session

\* the largest number of entries of a ledger of the session
MaxSessionEntries == 1

SessionLedgers == { l \in Ledgers : Cardinality(DOMAIN l) <= MaxSessionEntries }

SessionInit ==
    /\ Init
    /\ file \in SessionLedgers
    /\ closed = {}
    /\ unlisted = {}

\* a widget interaction: Streamlit runs the script again from the top, in a
\* fresh namespace; the st.cache_data caches live on in the server process
Rerun ==
    /\ pc \in {"done", "failed"}
    /\ pc' = "load"
    /\ portfolio' = <<>>
    /\ df' = <<>>
    /\ hist_data' = <<>>
    /\ UNCHANGED <<file, closed, unlisted, load_cache, format_cache, fetch_cache>>

\* the user edits portfolio.yaml between two runs of the script
EditLedger ==
    /\ pc \in {"done", "failed"}
    /\ file' \in SessionLedgers \ {file}
    /\ UNCHANGED <<closed, unlisted, pc, portfolio, df, hist_data,
                   load_cache, format_cache, fetch_cache>>

SessionNext == Next \/ Rerun \/ EditLedger

SessionSpec == SessionInit /\ [][SessionNext]_vars

\* ------------------------------------------------------------------ claims

Formatted == pc \in {"fetch", "done"}

Known(x) == ~IsNaN(x)

Lt(x, y) == Known(x) /\ Known(y) /\ Val(x) < Val(y)

RowsAt(t, d) == { i \in DOMAIN hist_data : hist_data[i].ticker = t /\ hist_data[i].date = d }

\* the QTE values of a details list, in ledger order
QteValues(details) ==
    LET items == SelectSeq(details, LAMBDA it : it.key = "QTE")
    IN  [i \in DOMAIN items |-> items[i].val[2]]

RECURSIVE SeqSum(_)
SeqSum(s) == IF s = <<>> THEN 0 ELSE s[1] + SeqSum(Tail(s))

\* the sum of the quantities the ledger gives for ticker t on days 0..d
RECURSIVE LedgerQuantity(_, _, _)
LedgerQuantity(p, t, d) ==
    IF d < 0 THEN 0
    ELSE LedgerQuantity(p, t, d - 1)
         + (IF <<t, d>> \in DOMAIN p /\ HasKey(p[<<t, d>>], "QTE")
            THEN QteValues(p[<<t, d>>])[1] ELSE 0)

\* C1: in every row of the table fetch_hist_data returns, an unavailable
\* close makes spending_stock, invested_cash_stock, valuation, balance and
\* profit_rate unavailable.
MaskingLaw ==
    pc = "done" =>
        \A i \in DOMAIN hist_data :
            IsNaN(hist_data[i].close) =>
                /\ IsNaN(hist_data[i].spending_stock)
                /\ IsNaN(hist_data[i].invested_cash_stock)
                /\ IsNaN(hist_data[i].valuation)
                /\ IsNaN(hist_data[i].balance)
                /\ IsNaN(hist_data[i].profit_rate)

\* C1 witness: a finished run with a row whose close is unavailable although
\* forward-filled spending and invested totals exist for it.
MaskingLawWitness ==
    /\ pc = "done"
    /\ \E i \in DOMAIN hist_data :
        /\ IsNaN(hist_data[i].close)
        /\ Known(Ffill(df, hist_data[i].ticker, hist_data[i].date, "spending_stock"))
        /\ Known(Ffill(df, hist_data[i].ticker, hist_data[i].date, "invested_cash_stock"))
        /\ Val(hist_data[i].quantity_stock) > 0

QuantityStockIsLedgerSum ==
    (pc = "done" /\ \A k \in DOMAIN portfolio : HasKey(portfolio[k], "QTE")) =>
        \A i \in DOMAIN hist_data :
            hist_data[i].quantity_stock =
                F(LedgerQuantity(portfolio, hist_data[i].ticker, hist_data[i].date))

EmptyLedgerCompletes == DOMAIN file = {} => pc # "failed"

\* C6: when every ledger entry has a quantity and a transaction has no
\* declared price and the single-day lookup returns nothing, spending_stock
\* and invested_cash_stock of its ticker are unavailable in every row of the
\* table dated on or after the transaction.
UnknownPricePropagates ==
    (pc = "done" /\ \A k \in DOMAIN portfolio : HasKey(portfolio[k], "QTE")) =>
        \A k \in DOMAIN portfolio :
            (IsNaN(ExtractPrice(portfolio[k])) /\ IsNaN(buy_price_yahoo(k[1], k[2]))) =>
                \A i \in DOMAIN hist_data :
                    (hist_data[i].ticker = k[1] /\ hist_data[i].date >= k[2]) =>
                        /\ IsNaN(hist_data[i].spending_stock)
                        /\ IsNaN(hist_data[i].invested_cash_stock)

IsSell(r) ==
    /\ Known(r.quantity_flow) /\ Val(r.quantity_flow) < 0
    /\ Known(r.price) /\ Val(r.price) > 0

TotalsKnown(r) ==
    Known(r.quantity_stock) /\ Known(r.spending_stock) /\ Known(r.invested_cash_stock)

InvestedNeverDecreases ==
    \A i, j \in DOMAIN df :
        (i < j /\ df[i].ticker = df[j].ticker) =>
            ~Lt(df[j].invested_cash_stock, df[i].invested_cash_stock)

\* C8 (as stated): after every sell with a known positive price,
\* quantity_stock and spending_stock are lower than after the ticker's
\* previous transaction and invested_cash_stock is the same; invested_cash_stock
\* never decreases along a ticker's transactions.
SellEffectAlways ==
    Formatted =>
        /\ \A i \in DOMAIN df :
            (i > 1 /\ df[i - 1].ticker = df[i].ticker /\ IsSell(df[i])) =>
                /\ Lt(df[i].quantity_stock, df[i - 1].quantity_stock)
                /\ Lt(df[i].spending_stock, df[i - 1].spending_stock)
                /\ df[i].invested_cash_stock = df[i - 1].invested_cash_stock
        /\ InvestedNeverDecreases

\* C8 (amended): after every sell with a known positive price whose previous
\* transaction has all three running totals available, quantity_stock and
\* spending_stock are lower than after that transaction and
\* invested_cash_stock is the same; among the rows where it is available,
\* invested_cash_stock never decreases along a ticker's transactions.
SellEffect ==
    Formatted =>
        /\ \A i \in DOMAIN df :
            (i > 1 /\ df[i - 1].ticker = df[i].ticker /\ IsSell(df[i])
                   /\ TotalsKnown(df[i - 1])) =>
                /\ Lt(df[i].quantity_stock, df[i - 1].quantity_stock)
                /\ Lt(df[i].spending_stock, df[i - 1].spending_stock)
                /\ df[i].invested_cash_stock = df[i - 1].invested_cash_stock
        /\ InvestedNeverDecreases

\* C8 witness: a finished run with a sell that follows a purchase of the same
\* ticker whose totals are available.
SellEffectWitness ==
    /\ pc = "done"
    /\ \E i \in DOMAIN df :
        /\ i > 1 /\ df[i - 1].ticker = df[i].ticker /\ IsSell(df[i])
        /\ TotalsKnown(df[i - 1])
        /\ Val(df[i - 1].invested_cash_stock) > 0

\* C9: in every row of the table, profit_rate is unavailable when
\* invested_cash_stock is zero or unavailable.
ProfitRateNeedsInvestment ==
    pc = "done" =>
        \A i \in DOMAIN hist_data :
            (IsNaN(hist_data[i].invested_cash_stock)
                \/ Val(hist_data[i].invested_cash_stock) = 0) =>
                    IsNaN(hist_data[i].profit_rate)

\* C10: every run of the script that returns a table returns the table
\* computed from the ledger file as it is during the run, also when the file
\* was edited since the run before.
RunsReadCurrentLedger ==
    [][(pc = "fetch" /\ pc' = "done" /\ ~FormatRaises(file)) =>
            hist_data' = fetch_hist_data(format_transactions(file), file)]_vars

====
